---- MODULE Spec2Model ----
(***************************************************************************)
(* spin-vm: the interactive selection state machine (browse_path, main) and *)
(* the derivation of the QEMU argument list, modelled from src/spin-vm.py.  *)
(*                                                                          *)
(* A file or directory name is a sequence of one-character strings, so that *)
(* str.strip, str.replace, str.endswith and sorted() are computed as Python *)
(* computes them.  A path is the sequence of its components below "/".      *)
(***************************************************************************)
EXTENDS Naturals, Sequences, FiniteSets, TLC

\* Most file entries the start directory holds in an initial filesystem.
MaxEntries == 2

(* ------------------------------ names --------------------------------- *)

n_home   == <<"h","o","m","e">>
n_alexia == <<"a","l","e","x","i","a">>
n_root   == <<"r","o","o","t">>
n_vms    == <<"v","m","s">>

\* A directory whose name starts with a blank.
n_sp_d   == <<" ","d">>

\* Candidate media in the start directory: an ISO, an image with another
\* extension, and a file whose name starts with a blank.
f_a_iso == <<"a",".","i","s","o">>
f_b_img == <<"b",".","i","m","g">>
f_sp_c  == <<" ","c">>

FileNames == {f_a_iso, f_b_img, f_sp_c}

\* The characters of the names above and of the artifact names, in code-point
\* order (Python compares strings by code point).
Alphabet == <<" ", ".", "/", "F", "M", "O", "R", "S", "V", "_",
              "a", "b", "c", "d", "e", "f", "g", "h", "i", "l", "m", "o",
              "q", "r", "s", "t", "u", "v", "w", "x">>

CharCode(c) == CHOOSE i \in 1..Len(Alphabet) : Alphabet[i] = c

RECURSIVE LexLess(_, _)
\* Python's a < b on strings.
LexLess(a, b) ==
    IF a = <<>> THEN b # <<>>
    ELSE IF b = <<>> THEN FALSE
    ELSE IF a[1] = b[1] THEN LexLess(Tail(a), Tail(b))
    ELSE CharCode(a[1]) < CharCode(b[1])

RECURSIVE UnsortedSeq(_)
\* Some enumeration of S that is not the sorted one: largest name first.
UnsortedSeq(S) ==
    IF S = {} THEN <<>>
    ELSE LET m == CHOOSE x \in S : \A y \in S : x = y \/ LexLess(y, x)
         IN  <<m>> \o UnsortedSeq(S \ {m})

RECURSIVE sorted(_)
\* sorted(list) of a set of distinct names.
sorted(S) ==
    IF S = {} THEN <<>>
    ELSE LET m == CHOOSE x \in S : \A y \in S : x = y \/ LexLess(x, y)
         IN  <<m>> \o sorted(S \ {m})

RECURSIVE lstrip(_)
lstrip(s) == IF s # <<>> /\ s[1] = " " THEN lstrip(Tail(s)) ELSE s

RECURSIVE rstrip(_)
rstrip(s) ==
    IF s # <<>> /\ s[Len(s)] = " " THEN rstrip(SubSeq(s, 1, Len(s) - 1)) ELSE s

\* str.strip()
strip(s) == rstrip(lstrip(s))

endswith_slash(s) == s # <<>> /\ s[Len(s)] = "/"

dot_iso == <<".","i","s","o">>

HasPrefix(s, p) == Len(s) >= Len(p) /\ SubSeq(s, 1, Len(p)) = p

RECURSIVE replace_iso(_)
\* name.replace(".iso", ""): every non-overlapping occurrence, left to right.
replace_iso(s) ==
    IF s = <<>> THEN <<>>
    ELSE IF HasPrefix(s, dot_iso)
         THEN replace_iso(SubSeq(s, Len(dot_iso) + 1, Len(s)))
         ELSE <<s[1]>> \o replace_iso(Tail(s))

(* ------------------------------ paths --------------------------------- *)

RootPath == <<>>

\* Python's None for a path: one empty component, which no path has.
None == << <<>> >>

\* Python's None for a menu result: the empty string, which no tag is.
NoSelection == <<>>

\* os.path.abspath("/home/alexia/")
StartPath == <<n_home, n_alexia>>

\* os.path.expanduser("~")
HomePath == <<n_root>>

\* os.path.join(p, name) for a name without "/"
join(p, name) == Append(p, name)

\* os.path.dirname of an absolute normalised path; dirname("/") = "/"
dirname(p) == IF p = <<>> THEN <<>> ELSE SubSeq(p, 1, Len(p) - 1)

\* os.path.basename
basename(p) == IF p = <<>> THEN <<>> ELSE p[Len(p)]

VARIABLES
    dirs,          \* the directories of the filesystem (paths)
    noread,        \* the directories os.listdir refuses (PermissionError)
    files,         \* regular files: path -> content
    dirs0, files0, \* the filesystem when the session started
    pc,            \* position in main
    bpc,           \* position in browse_path: idle, start, list, notice, menu
    current_path,  \* browse_path's current_path
    choices,       \* the choice list of the menu on screen
    selection,     \* what dialog_menu returned last in browse_path
    iso_path, vm_dir, is_uefi, mode,
    disk_path, vars_path, qemu_args,
    prompts,       \* the prompts answered so far, with the answer
    effects,       \* filesystem side effects performed, in order
    launches,      \* argument lists handed to subprocess.run(qemu...)
    out,           \* what main printed
    exitCode,      \* the process exit status once pc = "exit"
    exc            \* the uncaught exception, if one ended the process

vars == <<dirs, noread, files, dirs0, files0, pc, bpc, current_path, choices,
          selection,
          iso_path, vm_dir, is_uefi, mode, disk_path, vars_path, qemu_args,
          prompts, effects, launches, out, exitCode, exc>>

fsvars == <<dirs, noread, files, dirs0, files0>>
selvars == <<iso_path, vm_dir, is_uefi, mode, disk_path, vars_path, qemu_args>>

isdir(p) == p \in dirs
isfile(p) == p \in DOMAIN files
exists(p) == isdir(p) \/ isfile(p)

\* os.listdir(p): the names directly below p
listdir(p) ==
    { q[Len(q)] : q \in { r \in dirs \cup DOMAIN files :
                            Len(r) = Len(p) + 1 /\ SubSeq(r, 1, Len(p)) = p } }


(* ------------------------- derived artifacts -------------------------- *)

ext_uefi  == <<".","u","e","f","i">>
ext_qcow2 == <<".","q","c","o","w","2">>
ext_fd    == <<".","f","d">>
pre_vars  == <<"O","V","M","F","_","V","A","R","S","_">>

\* line 166: disk_name
disk_name_of(iso, uefi) ==
    replace_iso(basename(iso)) \o (IF uefi THEN ext_uefi ELSE <<>>) \o ext_qcow2

\* line 167: disk_path
disk_path_of(dir, iso, uefi) == join(dir, disk_name_of(iso, uefi))

\* line 168: vars_path
vars_path_of(dir, iso) ==
    join(dir, pre_vars \o replace_iso(basename(iso)) \o ext_fd)

(* --------------------------- argument lists --------------------------- *)

\* One element of an argument list: a literal, a bare path, or an f-string
\* s + path + t.  Two elements are equal exactly when the Python strings are.
Lit(s)        == [k |-> "lit",  s |-> s,  p |-> RootPath, t |-> ""]
PathArg(p)    == [k |-> "path", s |-> "", p |-> p,        t |-> ""]
Fmt(s, p, t)  == [k |-> "fmt",  s |-> s,  p |-> p,        t |-> t]

\* OVMF_CODE and OVMF_VARS_TEMPLATE (lines 9-10), named by their last component.
OVMF_CODE == << <<"u","s","r">>, <<"s","h","a","r","e">>, <<"O","V","M","F">>,
                <<"O","V","M","F","_","C","O","D","E","_","4","M",".","f","d">> >>
OVMF_VARS_TEMPLATE ==
             << <<"u","s","r">>, <<"s","h","a","r","e">>, <<"O","V","M","F">>,
                <<"O","V","M","F","_","V","A","R","S","_","4","M",".","f","d">> >>

DiskArg(dp) == Fmt("file=", dp, ",format=qcow2,if=virtio")
PflashCodeArg == Fmt("if=pflash,format=raw,readonly=on,file=", OVMF_CODE, "")
PflashVarsArg(vp) == Fmt("if=pflash,format=raw,file=", vp, "")

\* lines 171-181
base_args(dp) ==
    << Lit("qemu-system-x86_64"), Lit("-enable-kvm"), Lit("-m"), Lit("2048"),
       Lit("-smp"), Lit("4"), Lit("-cpu"), Lit("host"),
       Lit("-drive"), DiskArg(dp),
       Lit("-netdev"), Lit("user,id=net0"),
       Lit("-device"), Lit("virtio-net-pci,netdev=net0"),
       Lit("-display"), Lit("gtk") >>

\* The firmware arguments added whatever the firmware mode.
PflashAlways(uefi, vp) == << Lit("-drive"), PflashCodeArg, Lit("-drive"), PflashVarsArg(vp) >>

\* lines 183-187
pflash_args(uefi, vp) ==
    IF uefi THEN << Lit("-drive"), PflashCodeArg, Lit("-drive"), PflashVarsArg(vp) >>
    ELSE <<>>

\* line 207
install_extend(iso) == << Lit("-cdrom"), PathArg(iso), Lit("-boot"), Lit("order=d") >>

\* line 215 and line 228
run_extend == << Lit("-boot"), Lit("order=c") >>

\* A filter that forgets to drop "-boot".
FilterKeepsBoot(args, iso) ==
    SelectSeq(args, LAMBDA a : a \notin {Lit("-cdrom"), PathArg(iso), Lit("order=d")})

\* A filter that leaves the medium path in the list.
FilterKeepsMedium(args, iso) ==
    SelectSeq(args, LAMBDA a : a \notin {Lit("-cdrom"), Lit("order=d"), Lit("-boot")})

\* line 227: the install-specific arguments filtered out
filter_install(args, iso) ==
    SelectSeq(args, LAMBDA a :
        a \notin {Lit("-cdrom"), PathArg(iso), Lit("order=d"), Lit("-boot")})

\* lines 227-228: new_args
new_args_of(args, iso) == filter_install(args, iso) \o run_extend

\* lines 166-187 and 215: the list a Run session builds for these selections
run_mode_args(dir, iso, uefi) ==
    base_args(disk_path_of(dir, iso, uefi))
    \o pflash_args(uefi, vars_path_of(dir, iso))
    \o run_extend

(* ------------------------------ browser ------------------------------- *)

\* Directory names in arbitrary order.
DirsUnsorted(cur) == UnsortedSeq({ d \in listdir(cur) : isdir(join(cur, d)) })

\* line 112
dirs_sorted(cur) == sorted({ d \in listdir(cur) : isdir(join(cur, d)) })

\* line 113
files_sorted(cur) == sorted({ f \in listdir(cur) : isfile(join(cur, f)) })

tag_here == <<".">>
tag_up   == <<".", ".">>

\* lines 104-109
markers(select_dir) ==
    (IF select_dir
     THEN << [tag |-> tag_here, item |-> "--> SELECT THIS DIRECTORY <--"] >>
     ELSE <<>>)
    \o << [tag |-> tag_up, item |-> "../ (Go Up)"] >>

\* lines 104-118: the choice list of one iteration
browse_choices(cur, select_dir) ==
    LET ds == dirs_sorted(cur)
        fs == files_sorted(cur)
    IN  markers(select_dir)
        \o [i \in 1..Len(ds) |-> [tag |-> ds[i] \o <<"/">>, item |-> "(Dir)"]]
        \o [i \in 1..Len(fs) |-> [tag |-> fs[i], item |-> "(File)"]]

\* line 83: what dialog_menu returns for an accepted tag
menu_result(tag) == strip(tag)

\* A browser that takes ".." at the filesystem root for the end of the browse.
BrowseSelectUpEndsAtRoot(cur, select_dir, sel) ==
    IF sel = tag_here THEN [kind |-> "return", path |-> cur]
    ELSE IF sel = tag_up
         THEN IF cur = RootPath THEN [kind |-> "return", path |-> cur]
              ELSE [kind |-> "loop", path |-> dirname(cur)]
    ELSE IF endswith_slash(sel)
         THEN [kind |-> "loop", path |-> join(cur, SubSeq(sel, 1, Len(sel) - 1))]
    ELSE IF select_dir THEN [kind |-> "loop", path |-> cur]
    ELSE [kind |-> "return", path |-> join(cur, sel)]

\* lines 126-138: what one accepted selection does.  kind "return": browse_path
\* returns path; kind "loop": the loop goes on with current_path = path.
browse_select(cur, select_dir, sel) ==
    IF sel = tag_here THEN [kind |-> "return", path |-> cur]
    ELSE IF sel = tag_up THEN [kind |-> "loop", path |-> dirname(cur)]
    ELSE IF endswith_slash(sel)
         THEN [kind |-> "loop",
               path |-> join(cur, SubSeq(sel, 1, Len(sel) - 1))]
    ELSE IF select_dir THEN [kind |-> "loop", path |-> cur]
    ELSE [kind |-> "return", path |-> join(cur, sel)]

\* A confirmation that takes everything but the No button for a yes.
YesUnlessNo(answer) == answer # "no"

\* line 89: dialog_yesno is true for exit status 0 only
dialog_yesno(answer) == answer = "yes"

YesNoAnswers == {"yes", "no", "esc"}


(* --------------------------- initial states --------------------------- *)

Kinds == {"absent", "dir", "noread"}

\* One earlier Install session's artifacts: storage directory, medium, firmware.
\* The medium is one a browse can return: its menu tag comes back unchanged.
PriorSet(D, F) ==
    [d : D, m : { join(StartPath, f) : f \in { g \in F : strip(g) = g } },
     u : BOOLEAN]

PriorFiles(P) ==
    { disk_path_of(x.d, x.m, x.u) : x \in P }
    \cup { vars_path_of(x.d, x.m) : x \in { y \in P : y.u } }

InitFs(startOk, rootKind, vmsKind, blank, F, P) ==
    LET media == { join(StartPath, f) : f \in F }
        disks == { disk_path_of(x.d, x.m, x.u) : x \in P }
        all   == media \cup PriorFiles(P)
    IN  /\ dirs = {RootPath, <<n_home>>}
                  \cup (IF startOk THEN {StartPath} ELSE {})
                  \cup (IF rootKind # "absent" THEN {HomePath} ELSE {})
                  \cup (IF vmsKind # "absent" THEN {join(StartPath, n_vms)} ELSE {})
                  \cup (IF blank THEN {join(<<n_home>>, n_sp_d)} ELSE {})
        /\ noread = (IF rootKind = "noread" THEN {HomePath} ELSE {})
                    \cup (IF vmsKind = "noread" THEN {join(StartPath, n_vms)} ELSE {})
        /\ files = [q \in all |-> IF q \in media THEN "medium"
                                  ELSE IF q \in disks THEN "installed_disk"
                                  ELSE "installed_vars"]

Init ==
    /\ \E startOk \in BOOLEAN, rootKind \in Kinds, vmsKind \in Kinds,
          blank \in BOOLEAN, F \in SUBSET FileNames :
          /\ Cardinality(F) <= MaxEntries
          /\ (~startOk => vmsKind = "absent" /\ F = {})
          /\ LET D == (IF startOk THEN {StartPath} ELSE {})
                      \cup (IF vmsKind = "dir" THEN {join(StartPath, n_vms)} ELSE {})
             IN  \E P \in SUBSET PriorSet(D, F) :
                    /\ Cardinality(P) <= 1
                    /\ InitFs(startOk, rootKind, vmsKind, blank, F, P)
    /\ dirs0 = dirs
    /\ files0 = files
    /\ pc = "deps"
    /\ bpc = "idle"
    /\ current_path = RootPath
    /\ choices = <<>>
    /\ selection = NoSelection
    /\ iso_path = None
    /\ vm_dir = None
    /\ is_uefi = FALSE
    /\ mode = "unset"
    /\ disk_path = None
    /\ vars_path = None
    /\ qemu_args = <<>>
    /\ prompts = <<>>
    /\ effects = <<>>
    /\ launches = <<>>
    /\ out = <<>>
    /\ exitCode = 0
    /\ exc = "none"

(* ------------------------------ helpers ------------------------------- *)

\* sys.exit(code)
Exit(code) ==
    /\ pc' = "exit"
    /\ bpc' = "idle"
    /\ exitCode' = code
    /\ exc' = "none"

\* An exception nobody catches: traceback, exit status 1.
Raise(e) ==
    /\ pc' = "exit"
    /\ bpc' = "idle"
    /\ exitCode' = 1
    /\ exc' = e

Answered(p, a) == prompts' = Append(prompts, [p |-> p, a |-> a])

\* One printed line: the message, the path and the argument list it shows.
Msg(m, p, a) == [m |-> m, p |-> p, a |-> a]

Say(m, p, a) == out' = Append(out, Msg(m, p, a))

Browsing == pc \in {"browse_iso", "browse_dir"}
select_dir == pc = "browse_dir"
PromptOf(stage) == IF stage = "browse_iso" THEN "medium" ELSE "storage"

Remove(f, p) == [q \in DOMAIN f \ {p} |-> f[q]]
Put(f, p, c) == [q \in DOMAIN f \cup {p} |-> IF q = p THEN c ELSE f[q]]

Effect(op, p, ok) == [op |-> op, p |-> p, ok |-> ok]

\* os.makedirs(p, exist_ok=True): p and its missing ancestors
makedirs(p) == { SubSeq(p, 1, i) : i \in 0..Len(p) }

(* --------------------------- check_dependencies ----------------------- *)

\* lines 25-50 and line 144: the dependencies are there or get installed and
\* main goes on to the medium browse, or the operator declines and main exits.
CheckDependencies ==
    /\ pc = "deps"
    /\ \/ /\ pc' = "browse_iso"
          /\ bpc' = "start"
          /\ UNCHANGED <<exitCode, exc, out>>
       \/ /\ Exit(1)
          /\ Say("Cannot proceed without dependencies.", None, <<>>)
    /\ UNCHANGED <<fsvars, selvars, current_path, choices, prompts, effects,
                   launches>>
    /\ UNCHANGED selection

(* ------------------------------ browse_path --------------------------- *)

\* lines 92-94
BrowseStart ==
    /\ Browsing /\ bpc = "start"
    /\ current_path' = IF isdir(StartPath) THEN StartPath ELSE HomePath
    /\ bpc' = "list"
    /\ UNCHANGED <<fsvars, selvars, pc, choices, prompts, effects, launches,
                   out, exitCode, exc>>
    /\ UNCHANGED selection

\* lines 96-121: one listing; the menu or the permission notice comes up
BrowseList ==
    /\ Browsing /\ bpc = "list"
    /\ IF ~exists(current_path)
       THEN /\ Raise("FileNotFoundError")
            /\ UNCHANGED <<choices>>
       ELSE IF ~isdir(current_path)
       THEN /\ Raise("NotADirectoryError")
            /\ UNCHANGED <<choices>>
       ELSE IF current_path \in noread
       THEN /\ bpc' = "notice"
            /\ UNCHANGED <<pc, choices, exitCode, exc>>
       ELSE /\ choices' = browse_choices(current_path, select_dir)
            /\ bpc' = "menu"
            /\ UNCHANGED <<pc, exitCode, exc>>
    /\ UNCHANGED <<fsvars, selvars, current_path, prompts, effects, launches, out>>
    /\ UNCHANGED selection

\* A notice whose Escape ends the browse like a cancelled menu.
BrowseNoticeEscCancels ==
    /\ Browsing /\ bpc = "notice"
    /\ \E answer \in YesNoAnswers :
          IF answer = "esc"
          THEN /\ Exit(0)
               /\ UNCHANGED current_path
          ELSE /\ current_path' = dirname(current_path)
               /\ bpc' = "list"
               /\ UNCHANGED <<pc, exitCode, exc>>
    /\ UNCHANGED <<fsvars, selvars, choices, prompts, effects, launches, out>>
    /\ UNCHANGED selection

\* lines 100-102: the notice is answered, whatever the answer
BrowseNotice ==
    /\ Browsing /\ bpc = "notice"
    /\ \E answer \in YesNoAnswers :
          /\ current_path' = dirname(current_path)
          /\ bpc' = "list"
    /\ UNCHANGED <<fsvars, selvars, pc, choices, prompts, effects, launches,
                   out, exitCode, exc>>
    /\ UNCHANGED selection

\* A cancelled browse that ends the session with the failure status.
BrowseCancelFailure ==
    /\ Browsing /\ bpc = "menu"
    /\ Answered(PromptOf(pc), "cancel")
    /\ Exit(1)
    /\ UNCHANGED <<fsvars, selvars, current_path, choices, effects, launches, out>>
    /\ selection' = NoSelection

\* lines 123-124, then 145-146 or 153-154
BrowseCancel ==
    /\ Browsing /\ bpc = "menu"
    /\ Answered(PromptOf(pc), "cancel")
    /\ Exit(0)
    /\ UNCHANGED <<fsvars, selvars, current_path, choices, effects, launches, out>>
    /\ selection' = NoSelection

\* lines 126-136: a selection that keeps the loop going
BrowseNavigate ==
    /\ Browsing /\ bpc = "menu"
    /\ \E i \in 1..Len(choices) :
          LET r == browse_select(current_path, select_dir,
                                 menu_result(choices[i].tag))
          IN  /\ r.kind = "loop"
              /\ current_path' = r.path
              /\ selection' = menu_result(choices[i].tag)
    /\ bpc' = "list"
    /\ UNCHANGED <<fsvars, selvars, pc, choices, prompts, effects, launches,
                   out, exitCode, exc>>

\* lines 126-138 returning to line 144, then 145-149
IsoSelected ==
    /\ pc = "browse_iso" /\ bpc = "menu"
    /\ \E i \in 1..Len(choices) :
          LET r == browse_select(current_path, FALSE, menu_result(choices[i].tag))
          IN  /\ r.kind = "return"
              /\ iso_path' = r.path
              /\ selection' = menu_result(choices[i].tag)
              /\ Answered("medium", "ok")
              /\ IF isfile(r.path)
                 THEN /\ pc' = "browse_dir"
                      /\ bpc' = "start"
                      /\ UNCHANGED <<out, exitCode, exc>>
                 ELSE /\ Say("Invalid ISO path", r.path, <<>>)
                      /\ Exit(1)
    /\ UNCHANGED <<fsvars, vm_dir, is_uefi, mode, disk_path, vars_path,
                   qemu_args, current_path, choices, effects, launches>>

\* lines 126-138 returning to line 152, then 153-155
DirSelected ==
    /\ pc = "browse_dir" /\ bpc = "menu"
    /\ \E i \in 1..Len(choices) :
          LET r == browse_select(current_path, TRUE, menu_result(choices[i].tag))
          IN  /\ r.kind = "return"
              /\ vm_dir' = r.path
              /\ selection' = menu_result(choices[i].tag)
              /\ Answered("storage", "ok")
              /\ IF isdir(r.path)
                 THEN /\ pc' = "firmware"
                      /\ bpc' = "idle"
                      /\ UNCHANGED <<dirs, effects, exitCode, exc>>
                 ELSE IF isfile(r.path)
                 THEN /\ Raise("FileExistsError")
                      /\ UNCHANGED <<dirs, effects>>
                 ELSE /\ dirs' = dirs \cup makedirs(r.path)
                      /\ effects' = Append(effects, Effect("makedirs", r.path, TRUE))
                      /\ pc' = "firmware"
                      /\ bpc' = "idle"
                      /\ UNCHANGED <<exitCode, exc>>
    /\ UNCHANGED <<noread, files, dirs0, files0, iso_path, is_uefi, mode,
                   disk_path, vars_path, qemu_args, current_path, choices,
                   launches, out>>

(* --------------------------------- main ------------------------------- *)

\* line 158
FirmwareConfirm ==
    /\ pc = "firmware"
    /\ \E answer \in YesNoAnswers :
          /\ is_uefi' = dialog_yesno(answer)
          /\ Answered("firmware", answer)
    /\ pc' = "mode"
    /\ UNCHANGED <<fsvars, iso_path, vm_dir, mode, disk_path, vars_path,
                   qemu_args, bpc, current_path, choices, effects, launches,
                   out, exitCode, exc>>
    /\ UNCHANGED selection

\* A cancelled operating-mode menu that ends the session with status 0.
ModeCancelNeutral ==
    /\ pc = "mode"
    /\ Answered("mode", "cancel")
    /\ Exit(0)
    /\ UNCHANGED <<fsvars, selvars, current_path, choices, effects, launches, out>>
    /\ UNCHANGED selection

\* lines 161-163: the menu is cancelled
ModeCancel ==
    /\ pc = "mode"
    /\ Answered("mode", "cancel")
    /\ Exit(1)
    /\ UNCHANGED <<fsvars, selvars, current_path, choices, effects, launches, out>>
    /\ UNCHANGED selection

\* An install that goes on to create the image without looking at disk_path.
ModeInstallNoAsk ==
    /\ pc = "mode"
    /\ Answered("mode", "install")
    /\ mode' = "install"
    /\ disk_path' = disk_path_of(vm_dir, iso_path, is_uefi)
    /\ vars_path' = vars_path_of(vm_dir, iso_path)
    /\ qemu_args' = base_args(disk_path') \o pflash_args(is_uefi, vars_path')
    /\ Say("Starting INSTALL mode", None, <<>>)
    /\ pc' = "create"
    /\ UNCHANGED <<fsvars, iso_path, vm_dir, is_uefi, bpc, current_path,
                   choices, effects, launches, exitCode, exc>>
    /\ UNCHANGED selection

\* lines 161-193: "install" is chosen
ModeInstall ==
    /\ pc = "mode"
    /\ Answered("mode", "install")
    /\ mode' = "install"
    /\ disk_path' = disk_path_of(vm_dir, iso_path, is_uefi)
    /\ vars_path' = vars_path_of(vm_dir, iso_path)
    /\ qemu_args' = base_args(disk_path') \o pflash_args(is_uefi, vars_path')
    /\ Say("Starting INSTALL mode", None, <<>>)
    /\ pc' = IF exists(disk_path') THEN "overwrite" ELSE "create"
    /\ UNCHANGED <<fsvars, iso_path, vm_dir, is_uefi, bpc, current_path,
                   choices, effects, launches, exitCode, exc>>
    /\ UNCHANGED selection

\* A run that launches without looking at disk_path.
ModeRunNoCheck ==
    /\ pc = "mode"
    /\ Answered("mode", "run")
    /\ mode' = "run"
    /\ disk_path' = disk_path_of(vm_dir, iso_path, is_uefi)
    /\ vars_path' = vars_path_of(vm_dir, iso_path)
    /\ qemu_args' = base_args(disk_path') \o pflash_args(is_uefi, vars_path')
                    \o run_extend
    /\ Say("Starting RUN mode", None, <<>>)
    /\ pc' = "launch"
    /\ UNCHANGED <<bpc, exitCode, exc>>
    /\ UNCHANGED <<fsvars, iso_path, vm_dir, is_uefi, current_path, choices,
                   effects, launches>>
    /\ UNCHANGED selection

\* lines 161-187 and 209-215: "run" is chosen
ModeRun ==
    /\ pc = "mode"
    /\ Answered("mode", "run")
    /\ mode' = "run"
    /\ disk_path' = disk_path_of(vm_dir, iso_path, is_uefi)
    /\ vars_path' = vars_path_of(vm_dir, iso_path)
    /\ IF ~exists(disk_path')
       THEN /\ qemu_args' = base_args(disk_path') \o pflash_args(is_uefi, vars_path')
            /\ Say("Disk not found. Run install first.", disk_path', <<>>)
            /\ Exit(1)
       ELSE /\ qemu_args' = base_args(disk_path') \o pflash_args(is_uefi, vars_path')
                            \o run_extend
            /\ Say("Starting RUN mode", None, <<>>)
            /\ pc' = "launch"
            /\ UNCHANGED <<bpc, exitCode, exc>>
    /\ UNCHANGED <<fsvars, iso_path, vm_dir, is_uefi, current_path, choices,
                   effects, launches>>
    /\ UNCHANGED selection

\* lines 194-198
OverwriteConfirm ==
    /\ pc = "overwrite"
    /\ \E answer \in YesNoAnswers :
          /\ Answered("overwrite", answer)
          /\ IF dialog_yesno(answer)
             THEN IF isdir(disk_path)
                  THEN /\ Raise("IsADirectoryError")
                       /\ UNCHANGED <<files, effects, out>>
                  ELSE /\ files' = Remove(files, disk_path)
                       /\ effects' = Append(effects, Effect("remove", disk_path, TRUE))
                       /\ pc' = "create"
                       /\ UNCHANGED <<bpc, out, exitCode, exc>>
             ELSE /\ Say("Aborting.", None, <<>>)
                  /\ Exit(1)
                  /\ UNCHANGED <<files, effects>>
    /\ UNCHANGED <<dirs, noread, dirs0, files0, selvars, current_path, choices,
                   launches>>
    /\ UNCHANGED selection

CreateOutcomes == {"created", "failed", "nostart"}

\* line 200 (run_command, lines 13-23), and line 207 when the firmware is BIOS
CreateDisk ==
    /\ pc = "create"
    /\ \E outcome \in CreateOutcomes :
          IF outcome = "nostart"
          THEN /\ Raise("FileNotFoundError")
               /\ UNCHANGED <<files, effects, out, qemu_args>>
          ELSE /\ IF outcome = "created"
                  THEN /\ files' = Put(files, disk_path, "qcow2_20G")
                       /\ effects' = Append(effects, Effect("create", disk_path, TRUE))
                       /\ UNCHANGED out
                  ELSE /\ effects' = Append(effects, Effect("create", disk_path, FALSE))
                       /\ Say("Error running command", disk_path, <<>>)
                       /\ UNCHANGED files
               /\ IF is_uefi
                  THEN /\ pc' = "vars"
                       /\ UNCHANGED qemu_args
                  ELSE /\ pc' = "launch"
                       /\ qemu_args' = qemu_args \o install_extend(iso_path)
               /\ UNCHANGED <<bpc, exitCode, exc>>
    /\ UNCHANGED <<dirs, noread, dirs0, files0, iso_path, vm_dir, is_uefi, mode,
                   disk_path, vars_path, current_path, choices, prompts, launches>>
    /\ UNCHANGED selection

CopyOutcomes == {"copied", "notemplate"}

\* A firmware step that copies the template over whatever is at vars_path.
PrepareVarsNoRemove ==
    /\ pc = "vars"
    /\ \E outcome \in CopyOutcomes :
          IF outcome = "copied"
          THEN /\ files' = Put(files, vars_path, "vars_template")
               /\ effects' = Append(effects, Effect("copy", vars_path, TRUE))
               /\ qemu_args' = qemu_args \o install_extend(iso_path)
               /\ pc' = "launch"
               /\ UNCHANGED <<bpc, exitCode, exc>>
          ELSE /\ Raise("FileNotFoundError")
               /\ UNCHANGED <<files, effects, qemu_args>>
    /\ UNCHANGED <<dirs, noread, dirs0, files0, iso_path, vm_dir, is_uefi, mode,
                   disk_path, vars_path, current_path, choices, prompts,
                   launches, out>>
    /\ UNCHANGED selection

\* lines 202-207 with UEFI
PrepareVars ==
    /\ pc = "vars"
    /\ \E outcome \in CopyOutcomes :
          LET had  == exists(vars_path)
              gone == IF had THEN Remove(files, vars_path) ELSE files
              rm   == IF had THEN <<Effect("remove", vars_path, TRUE)>> ELSE <<>>
          IN  IF outcome = "copied"
              THEN /\ files' = Put(gone, vars_path, "vars_template")
                   /\ effects' = effects \o rm \o <<Effect("copy", vars_path, TRUE)>>
                   /\ qemu_args' = qemu_args \o install_extend(iso_path)
                   /\ pc' = "launch"
                   /\ UNCHANGED <<bpc, exitCode, exc>>
              ELSE /\ files' = gone
                   /\ effects' = effects \o rm
                   /\ Raise("FileNotFoundError")
                   /\ UNCHANGED qemu_args
    /\ UNCHANGED <<dirs, noread, dirs0, files0, iso_path, vm_dir, is_uefi, mode,
                   disk_path, vars_path, current_path, choices, prompts,
                   launches, out>>
    /\ UNCHANGED selection

LaunchOutcomes == {"zero", "nonzero", "nostart"}

Launched(args, result) == [args |-> args, result |-> result]

\* A launch that offers the re-launch whatever the operating mode.
LaunchAlwaysAsks ==
    /\ pc = "launch"
    /\ Say("Launching QEMU", None, qemu_args)
    /\ \E outcome \in LaunchOutcomes :
          /\ launches' = Append(launches, Launched(qemu_args, outcome))
          /\ IF outcome = "nostart"
             THEN Raise("FileNotFoundError")
             ELSE /\ pc' = "runnow"
                  /\ UNCHANGED <<bpc, exitCode, exc>>
    /\ UNCHANGED <<fsvars, selvars, current_path, choices, prompts, effects>>
    /\ UNCHANGED selection

\* lines 219-220, then 222 or the end of main
Launch ==
    /\ pc = "launch"
    /\ Say("Launching QEMU", None, qemu_args)
    /\ \E outcome \in LaunchOutcomes :
          /\ launches' = Append(launches, Launched(qemu_args, outcome))
          /\ IF outcome = "nostart"
             THEN Raise("FileNotFoundError")
             ELSE IF mode = "install"
             THEN /\ pc' = "runnow"
                  /\ UNCHANGED <<bpc, exitCode, exc>>
             ELSE Exit(0)
    /\ UNCHANGED <<fsvars, selvars, current_path, choices, prompts, effects>>
    /\ UNCHANGED selection

\* lines 223-229, then the end of main
RunNowConfirm ==
    /\ pc = "runnow"
    /\ \E answer \in YesNoAnswers :
          /\ Answered("runnow", answer)
          /\ IF dialog_yesno(answer)
             THEN /\ Say("Restarting VM in RUN mode...", None, <<>>)
                  /\ \E outcome \in LaunchOutcomes :
                        /\ launches' = Append(launches,
                              Launched(new_args_of(qemu_args, iso_path), outcome))
                        /\ IF outcome = "nostart"
                           THEN Raise("FileNotFoundError")
                           ELSE Exit(0)
             ELSE /\ Exit(0)
                  /\ UNCHANGED <<launches, out>>
    /\ UNCHANGED <<fsvars, selvars, current_path, choices, effects>>
    /\ UNCHANGED selection

Next ==
    \/ CheckDependencies
    \/ BrowseStart
    \/ BrowseList
    \/ BrowseNotice
    \/ BrowseCancel
    \/ BrowseNavigate
    \/ IsoSelected
    \/ DirSelected
    \/ FirmwareConfirm
    \/ ModeCancel
    \/ ModeInstall
    \/ ModeRun
    \/ OverwriteConfirm
    \/ CreateDisk
    \/ PrepareVars
    \/ Launch
    \/ RunNowConfirm

Spec == Init /\ [][Next]_vars


(* ------------------------- notions the claims use --------------------- *)

LastPrompt == prompts[Len(prompts)]

FsUnchanged == files = files0 /\ dirs = dirs0

NoSideEffect == FsUnchanged /\ effects = <<>>

NoLaunch == launches = <<>> /\ \A i \in 1..Len(out) : out[i].m # "Launching QEMU"

Count(a, L) == Cardinality({ j \in 1..Len(L) : L[j] = a })

\* The prompt on screen, if main waits at one.
CurrentPrompt ==
    IF pc = "browse_iso" THEN <<"medium">>
    ELSE IF pc = "browse_dir" THEN <<"storage">>
    ELSE IF pc \in {"firmware", "mode", "overwrite", "runnow"} THEN <<pc>>
    ELSE <<>>

\* The prompts shown so far, in order: those answered, then the one on screen.
Shown == [i \in 1..Len(prompts) |-> prompts[i].p] \o CurrentPrompt

IsPrefix(a, b) == Len(a) <= Len(b) /\ SubSeq(b, 1, Len(a)) = a

(* ------------------------------- claims ------------------------------- *)

\* C1: once the medium browse or the storage browse is cancelled, the session
\* has terminated with exit status 0, no exception, no filesystem side effect
\* (nothing created, removed or copied) and no backend launch.
C1_CancelBrowseNeutralExit ==
    (prompts # <<>> /\ LastPrompt.p \in {"medium", "storage"}
                    /\ LastPrompt.a = "cancel")
    => /\ pc = "exit" /\ exitCode = 0 /\ exc = "none"
       /\ NoSideEffect
       /\ NoLaunch

C1_Witness ==
    /\ pc = "exit"
    /\ Len(prompts) = 2
    /\ prompts[1] = [p |-> "medium", a |-> "ok"]
    /\ prompts[2] = [p |-> "storage", a |-> "cancel"]

\* C2: in Run mode with nothing at the derived disk_path, the session has
\* ended with exit status 1 by sys.exit, nothing was launched or announced as
\* launched, the argument list was never completed with a boot argument, and
\* the filesystem is as it was.
C2_RunWithoutDiskAborts ==
    (mode = "run" /\ ~exists(disk_path))
    => /\ pc = "exit" /\ exitCode = 1 /\ exc = "none"
       /\ NoLaunch
       /\ Count(Lit("-boot"), qemu_args) = 0
       /\ NoSideEffect
       /\ out[Len(out)].m = "Disk not found. Run install first."

C2_Witness ==
    /\ mode = "run" /\ pc = "exit" /\ is_uefi
    /\ ~exists(disk_path)
    /\ exists(disk_path_of(vm_dir, iso_path, FALSE))

\* C3: in Install mode with a file at disk_path, the overwrite question comes
\* before any change; declined or escaped, the session ends with status 1,
\* the filesystem as it was and nothing launched; accepted, the first side
\* effect is the removal of disk_path and the image creation comes right after
\* it, so that a fresh 20G image never appears without the removal.
C3_OverwriteConfirm ==
    /\ pc = "overwrite" => exists(disk_path) /\ NoSideEffect /\ NoLaunch
    /\ \A i \in 1..Len(prompts) :
          prompts[i].p = "overwrite" =>
             IF prompts[i].a = "yes"
             THEN /\ effects # <<>>
                  /\ effects[1] = Effect("remove", disk_path, TRUE)
                  /\ \A j \in 1..Len(effects) :
                        effects[j].op = "create" => j = 2 /\ effects[j].p = disk_path
                  /\ pc = "create" => ~exists(disk_path)
                  /\ isfile(disk_path) => files[disk_path] = "qcow2_20G"
             ELSE /\ pc = "exit" /\ exitCode = 1 /\ exc = "none"
                  /\ NoSideEffect /\ NoLaunch
                  /\ files[disk_path] = files0[disk_path]
    /\ (mode = "install" /\ disk_path \in DOMAIN files0
        /\ \A i \in 1..Len(prompts) : prompts[i] # [p |-> "overwrite", a |-> "yes"])
       => /\ isfile(disk_path) /\ files[disk_path] = files0[disk_path]
          /\ NoSideEffect

C3_Witness ==
    /\ \E i \in 1..Len(prompts) : prompts[i] = [p |-> "overwrite", a |-> "yes"]
    /\ pc = "launch"
    /\ isfile(disk_path) /\ files[disk_path] = "qcow2_20G"
    /\ files0[disk_path] = "installed_disk"

RECURSIVE LastDot(_)
\* The position of the last "." of a name, 0 when it has none.
LastDot(s) ==
    IF s = <<>> THEN 0
    ELSE IF s[Len(s)] = "." THEN Len(s)
    ELSE LastDot(SubSeq(s, 1, Len(s) - 1))

\* A base name with its extension stripped (a leading dot starts no extension).
StripExtension(s) ==
    IF LastDot(s) > 1 THEN SubSeq(s, 1, LastDot(s) - 1) ELSE s

\* C4: the artifact paths are D/B.qcow2 or D/B.uefi.qcow2 and D/OVMF_VARS_B.fd,
\* with B the base name of the medium with its extension stripped.
C4_ArtifactPathsStripExtension ==
    (mode # "unset" /\ files0[iso_path] = "medium") =>
       LET B == StripExtension(basename(iso_path))
       IN  /\ disk_path = join(vm_dir, B \o (IF is_uefi THEN ext_uefi ELSE <<>>)
                                         \o ext_qcow2)
           /\ vars_path = join(vm_dir, pre_vars \o B \o ext_fd)

\* C5: the argument list of the re-launch after an install holds no -cdrom, no
\* medium path and no order=d, holds -boot once and order=c once, as its last
\* two elements, and before them exactly the install list's other arguments,
\* in their order and as often as there.
C5_RelaunchArgs ==
    \A i \in 2..Len(launches) :
       LET L == launches[i].args
           I == launches[1].args
       IN  /\ \A j \in 1..Len(L) :
                 L[j] \notin {Lit("-cdrom"), PathArg(iso_path), Lit("order=d")}
           /\ Count(Lit("-boot"), L) = 1
           /\ Count(Lit("order=c"), L) = 1
           /\ Len(L) >= 2
           /\ L[Len(L) - 1] = Lit("-boot")
           /\ L[Len(L)] = Lit("order=c")
           /\ SubSeq(I, Len(I) - 3, Len(I)) = install_extend(iso_path)
           /\ SubSeq(L, 1, Len(L) - 2) = SubSeq(I, 1, Len(I) - 4)

C5_Witness ==
    /\ Len(launches) = 2
    /\ launches[2].result = "zero"
    /\ ~is_uefi


Refused(r) ==
    \/ r.a \in {"cancel", "esc"}
    \/ r.p \in {"overwrite", "runnow"} /\ r.a = "no"

\* C6 as stated: whichever prompt is declined or escaped, the session ends
\* there and no filesystem side effect has been performed.
C6_EveryRefusalAborts ==
    \A i \in 1..Len(prompts) :
       Refused(prompts[i]) => i = Len(prompts) /\ pc = "exit" /\ NoSideEffect

\* C6: a cancelled medium or storage browse ends the session with status 0, a
\* cancelled operating-mode menu and a declined or escaped overwrite confirm
\* end it with status 1, each with no filesystem side effect and no launch;
\* an escaped firmware-mode confirm is the BIOS choice and the session goes on
\* to the operating-mode menu; a declined or escaped run-now confirm ends the
\* session with status 0 after the install launch, with no second launch.
C6_RefusalsByPrompt ==
    \A i \in 1..Len(prompts) :
       LET r == prompts[i]
           Ended(code) == /\ i = Len(prompts)
                          /\ pc = "exit" /\ exitCode = code /\ exc = "none"
       IN  /\ (r.p \in {"medium", "storage"} /\ r.a = "cancel")
                 => Ended(0) /\ NoSideEffect /\ NoLaunch
           /\ (r.p = "mode" /\ r.a = "cancel")
                 => Ended(1) /\ NoSideEffect /\ NoLaunch
           /\ (r.p = "overwrite" /\ r.a \in {"no", "esc"})
                 => Ended(1) /\ NoSideEffect /\ NoLaunch
           /\ (r.p = "firmware" /\ r.a = "esc")
                 => ~is_uefi /\ (i = Len(prompts) => pc = "mode")
           /\ (r.p = "runnow" /\ r.a \in {"no", "esc"})
                 => Ended(0) /\ Len(launches) = 1 /\ effects # <<>>

C6_Witness ==
    /\ pc = "exit"
    /\ \E i \in 1..Len(prompts) : prompts[i] = [p |-> "firmware", a |-> "esc"]
    /\ LastPrompt = [p |-> "overwrite", a |-> "esc"]

\* The file names of the listing of p in the filesystem the session started with.
FileEntries0(p) ==
    { q[Len(q)] : q \in { r \in DOMAIN files0 :
                            Len(r) = Len(p) + 1 /\ SubSeq(r, 1, Len(p)) = p } }

\* C7: what a browse returns exists, and is the directory just listed or the
\* join of that directory with a file entry of its listing.
C7_BrowseReturnsExistingPath ==
    /\ iso_path # None => iso_path \in dirs0 \cup DOMAIN files0
    /\ (iso_path # None /\ Len(prompts) = 1
        /\ (bpc = "start" \/ (pc = "exit" /\ exc = "none")))
       => \/ iso_path = current_path
          \/ \E f \in FileEntries0(current_path) : iso_path = join(current_path, f)
    /\ vm_dir # None => vm_dir \in dirs0 /\ vm_dir = current_path

\* C8: the menu on screen lists the "." marker (directory-select mode only),
\* the ".." marker, then every directory of current_path, tagged name + "/",
\* in increasing order of name, then every file in increasing order of name.
C8_ChoiceOrder ==
    (Browsing /\ bpc = "menu") =>
       LET n == Len(choices)
           m == IF select_dir THEN 2 ELSE 1
           DirRows == { i \in 1..n : choices[i].item = "(Dir)" }
           FileRows == { i \in 1..n : choices[i].item = "(File)" }
           name(i) == IF i \in DirRows
                      THEN SubSeq(choices[i].tag, 1, Len(choices[i].tag) - 1)
                      ELSE choices[i].tag
       IN  /\ n >= m
           /\ choices[m].tag = tag_up
           /\ select_dir => choices[1].tag = tag_here
           /\ ~select_dir => \A i \in 1..n : choices[i].tag # tag_here
           /\ DirRows \cup FileRows = (m + 1)..n
           /\ \A i \in DirRows : \A j \in FileRows : i < j
           /\ \A i \in DirRows : endswith_slash(choices[i].tag)
           /\ \A i \in DirRows : \A j \in DirRows :
                 i < j => LexLess(name(i), name(j))
           /\ \A i \in FileRows : \A j \in FileRows :
                 i < j => LexLess(name(i), name(j))
           /\ { name(i) : i \in DirRows }
                 = { d \in listdir(current_path) : isdir(join(current_path, d)) }
           /\ { name(i) : i \in FileRows }
                 = { f \in listdir(current_path) : isfile(join(current_path, f)) }

C8_Witness ==
    /\ pc = "browse_dir" /\ bpc = "menu"
    /\ Cardinality({ i \in 1..Len(choices) : choices[i].item = "(File)" }) >= 2
    /\ Cardinality({ i \in 1..Len(choices) : choices[i].item = "(Dir)" }) >= 1

IsPflash(a) ==
    a.k = "fmt" /\ a.s \in {"if=pflash,format=raw,readonly=on,file=",
                           "if=pflash,format=raw,file="}

\* C9: every launched argument list holds, with UEFI, exactly the two pflash
\* drives, the read-only code file and then the writable vars_path, each after
\* a -drive; with BIOS it holds no pflash argument.
C9_PflashIffUefi ==
    \A i \in 1..Len(launches) :
       LET L == launches[i].args
           P == { j \in 1..Len(L) : IsPflash(L[j]) }
       IN  IF is_uefi
           THEN \E j \in 2..(Len(L) - 2) :
                   /\ P = {j, j + 2}
                   /\ L[j - 1] = Lit("-drive")
                   /\ L[j] = PflashCodeArg
                   /\ L[j + 1] = Lit("-drive")
                   /\ L[j + 2] = PflashVarsArg(vars_path)
           ELSE P = {}

C9_Witness ==
    /\ is_uefi
    /\ Len(launches) = 2
    /\ mode = "install"

FirstFour(q) == SubSeq(q, 1, IF Len(q) < 4 THEN Len(q) ELSE 4)

PromptOrder == <<"medium", "storage", "firmware", "mode">>

ModeCancelled ==
    (prompts # <<>> /\ LastPrompt = [p |-> "mode", a |-> "cancel"])
    => /\ pc = "exit" /\ exitCode = 1 /\ exc = "none"
       /\ files = files0
       /\ NoSideEffect
       /\ NoLaunch

\* C10 as stated: the prompts come in the order medium, storage, firmware,
\* mode, none after a cancelled or escaped one, and a cancelled mode menu ends
\* the session with a non-zero status, no artifact change and no launch.
C10_PromptOrderStopsAtAnyCancel ==
    /\ IsPrefix(FirstFour(Shown), PromptOrder)
    /\ \A i \in 1..Len(prompts) :
          i < Len(Shown) => prompts[i].a \notin {"cancel", "esc"}
    /\ ModeCancelled

\* C10: the prompts come in the order medium, storage, firmware, mode; none is
\* shown after a cancelled browse or menu, while an escaped firmware-mode
\* confirm is the BIOS choice and the mode menu follows it; a cancelled mode
\* menu ends the session with status 1, no artifact change and no launch.
C10_PromptOrder ==
    /\ IsPrefix(FirstFour(Shown), PromptOrder)
    /\ \A i \in 1..Len(prompts) :
          /\ i < Len(Shown) => prompts[i].a # "cancel"
          /\ prompts[i] = [p |-> "firmware", a |-> "esc"] => ~is_uefi
    /\ ModeCancelled

C10_Witness ==
    /\ pc = "exit"
    /\ Len(prompts) = 4
    /\ prompts[3] = [p |-> "firmware", a |-> "esc"]
    /\ prompts[4] = [p |-> "mode", a |-> "cancel"]


InLoop == Browsing /\ bpc \in {"list", "notice", "menu"}

\* C11, for the steps that follow a menu choice and as far as existence goes:
\* after a descent or a go-up, and at every later step of the browse loop,
\* current_path denotes an existing directory.
C11_CurrentPathIsDirectory ==
    (InLoop /\ selection # NoSelection) => isdir(current_path)

\* C12: a listing refused with PermissionError brings up the notice and ends
\* nothing; whatever is answered to the notice, current_path becomes its
\* parent, the loop lists again, and the browse has neither returned nor been
\* cancelled.
C12_PermissionRecovery ==
    [][ /\ (Browsing /\ bpc = "list" /\ current_path \in noread)
              => bpc' = "notice" /\ pc' = pc /\ current_path' = current_path
        /\ bpc = "notice"
              => /\ bpc' = "list"
                 /\ current_path' = dirname(current_path)
                 /\ pc' = pc /\ exitCode' = exitCode /\ exc' = exc
                 /\ prompts' = prompts
                 /\ iso_path' = iso_path /\ vm_dir' = vm_dir
      ]_vars

\* The home directory refuses the listing and is where the browse starts, so
\* the menu of "/" is on screen only after the notice was answered.
C12_Witness ==
    /\ HomePath \in noread
    /\ ~isdir(StartPath)
    /\ pc = "browse_iso" /\ bpc = "menu"
    /\ current_path = RootPath
    /\ selection = NoSelection

\* C13: a directory-select browse returns the directory at which "." was
\* chosen and nothing else; a file-select browse returns the path of a file,
\* the join of current_path with the file row chosen.
C13_BrowseResultKinds ==
    /\ vm_dir # None
          => vm_dir \in dirs0 /\ selection = tag_here /\ vm_dir = current_path
    /\ iso_path # None => iso_path \in DOMAIN files0
    /\ (iso_path # None /\ bpc = "start")
          => \E i \in 1..Len(choices) :
                /\ choices[i].item = "(File)"
                /\ iso_path = join(current_path, choices[i].tag)

\* C14: ".." chosen at "/" leaves current_path at "/", and the next step lists
\* "/" and puts its menu on screen; every pass of the loop ends at a prompt
\* (menu or notice) or ends the process, so no run of steps goes on without
\* waiting for the operator; and at the menu of "/" the operator can cancel,
\* navigate and, in directory-select mode, select.
C14_GoUpAtRoot ==
    /\ [](  (Browsing /\ bpc = "menu" /\ current_path = RootPath)
            => /\ \E i \in 1..Len(choices) : choices[i].tag = tag_up
               /\ ENABLED BrowseCancel
               /\ ENABLED BrowseNavigate
               /\ select_dir => ENABLED DirSelected )
    /\ [][ /\ (Browsing /\ bpc = "menu" /\ current_path = RootPath
               /\ selection' = tag_up)
                 => current_path' = RootPath /\ bpc' = "list" /\ pc' = pc
           /\ (Browsing /\ bpc = "list" /\ current_path = RootPath)
                 => /\ bpc' = "menu" /\ pc' = pc /\ current_path' = RootPath
                    /\ choices' = browse_choices(RootPath, select_dir)
           /\ (Browsing /\ bpc = "start") => bpc' = "list" /\ pc' = pc
           /\ (Browsing /\ bpc = "list") => bpc' \in {"menu", "notice", "idle"}
         ]_vars

C14_Witness ==
    /\ pc = "browse_dir" /\ bpc = "menu"
    /\ current_path = RootPath
    /\ selection = tag_up
    /\ choices[2].tag = tag_up


\* The side effects performed, as (operation, path) pairs.
EffectKeys == [i \in 1..Len(effects) |-> <<effects[i].op, effects[i].p>>]

\* The side effects of a whole Install session, from the filesystem it found.
InstallEffects ==
    (IF disk_path \in DOMAIN files0 THEN << <<"remove", disk_path>> >> ELSE <<>>)
    \o << <<"create", disk_path>> >>
    \o (IF is_uefi
        THEN (IF vars_path \in DOMAIN files0
              THEN << <<"remove", vars_path>> >> ELSE <<>>)
             \o << <<"copy", vars_path>> >>
        ELSE <<>>)

\* C15: in an Install session the side effects come in the order removal of
\* the old image (if there was one), image creation, and with UEFI removal of
\* the old variable store (if there was one) and copy of the template; nothing
\* is launched before they are all done and none is added afterwards; a BIOS
\* install leaves vars_path as it was.
C15_InstallEffectsOrder ==
    mode = "install" =>
       /\ IsPrefix(EffectKeys, InstallEffects)
       /\ pc \in {"overwrite", "create", "vars"} => launches = <<>>
       /\ launches # <<>> => EffectKeys = InstallEffects
       /\ ~is_uefi =>
             IF vars_path \in DOMAIN files0
             THEN isfile(vars_path) /\ files[vars_path] = files0[vars_path]
             ELSE ~exists(vars_path)

C15_Witness ==
    /\ mode = "install" /\ is_uefi
    /\ Len(effects) = 4
    /\ Len(launches) = 2

\* C16: for every launch that exited non-zero or did not start, a line printed
\* apart from the announcement of the launch reports it with the argument list
\* of that launch.
C16_LaunchFailureSurfaced ==
    \A i \in 1..Len(launches) :
       launches[i].result # "zero" =>
          \E j \in 1..Len(out) :
             out[j].a = launches[i].args /\ out[j].m # "Launching QEMU"

\* C17: whenever the backend has been launched, a disk image file is at the
\* disk_path its -drive argument names.
C17_DiskExistsAtLaunch ==
    \A i \in 1..Len(launches) :
       /\ Count(DiskArg(disk_path), launches[i].args) = 1
       /\ isfile(disk_path)

\* C18: the argument list of the re-launch after an install is, element for
\* element, the list a Run session launches for the same storage directory,
\* medium and firmware mode.
C18_RelaunchEqualsRunList ==
    LET R == run_mode_args(vm_dir, iso_path, is_uefi)
    IN  /\ (mode = "run" /\ launches # <<>>) => launches[1].args = R
        /\ \A i \in 2..Len(launches) : launches[i].args = R

C18_Witness ==
    /\ mode = "install" /\ is_uefi
    /\ Len(launches) = 2
    /\ launches[1].result = "nonzero"
    /\ launches[2].args = run_mode_args(vm_dir, iso_path, TRUE)

\* C19: from the choice of Run to the end of the process the filesystem stays
\* as it was found, disk image and variable store included; the backend is
\* launched once if the disk image exists, never twice, and not at all
\* otherwise.
C19_RunModeFrame ==
    mode = "run" =>
       /\ FsUnchanged /\ effects = <<>>
       /\ Len(launches) <= 1
       /\ pc \in {"launch", "exit"}
       /\ pc = "exit" => Len(launches) = (IF exists(disk_path) THEN 1 ELSE 0)
       /\ pc = "launch" => exists(disk_path) /\ launches = <<>>

C19_Witness ==
    /\ mode = "run" /\ pc = "exit" /\ exitCode = 0
    /\ Len(launches) = 1
    /\ is_uefi
    /\ isfile(vars_path) /\ files[vars_path] = "installed_vars"
    /\ files[disk_path] = "installed_disk"

====
